---- MODULE Spec2Model ----
(***************************************************************************)
(* enviper: viper's Unmarshal with every field of the target overridable   *)
(* from the process environment (src/enviper.go).                          *)
(*                                                                         *)
(* Go strings are sequences of one-character strings, so that upper-casing,*)
(* the "." -> "_" replacer, prefix scans, joins and splits are computed as *)
(* the code computes them.                                                 *)
(***************************************************************************)
EXTENDS Integers, Sequences, FiniteSets, TLC

VARIABLES
    schema,     \* index of the target's Go type in Schemas (reflect.TypeOf(rawVal))
    rawVal,     \* the target value Unmarshal decodes into
    viper,      \* the wrapped *viper.Viper: config, env bindings, defaults, prefix, replacer
    environ,    \* the process environment, in os.Environ() order
    file,       \* what ReadInConfig finds: its result and the keys of the base source
    pc,         \* position inside Unmarshal
    err,        \* what Unmarshal returned
    calls,      \* completed Unmarshal calls
    env0,       \* history: the environment before the first call
    baseVal,    \* history: the target after the first decode of the first call
    firstVal,   \* history: the target after the first call returned
    walked      \* history: what the last bindEnvs walk visited, in order

vars == <<schema, rawVal, viper, environ, file, pc, err, calls, env0, baseVal, firstVal, walked>>

(***************************************************************************)
(* strings                                                                 *)
(***************************************************************************)
LowerChars == <<"a", "b", "c", "d", "e", "f", "g", "h", "i", "j", "k", "l", "m",
                "n", "o", "p", "q", "r", "s", "t", "u", "v", "w", "x", "y", "z">>
UpperChars == <<"A", "B", "C", "D", "E", "F", "G", "H", "I", "J", "K", "L", "M",
                "N", "O", "P", "Q", "R", "S", "T", "U", "V", "W", "X", "Y", "Z">>

ToUpperChar(c) ==
    IF \E i \in 1..Len(LowerChars) : LowerChars[i] = c
    THEN UpperChars[CHOOSE i \in 1..Len(LowerChars) : LowerChars[i] = c]
    ELSE c

ToLowerChar(c) ==
    IF \E i \in 1..Len(UpperChars) : UpperChars[i] = c
    THEN LowerChars[CHOOSE i \in 1..Len(UpperChars) : UpperChars[i] = c]
    ELSE c

\* strings.ToUpper
ToUpper(s) == [i \in 1..Len(s) |-> ToUpperChar(s[i])]

\* strings.ToLower
ToLower(s) == [i \in 1..Len(s) |-> ToLowerChar(s[i])]

\* strings.NewReplacer(".", "_").Replace
Replace(s) == [i \in 1..Len(s) |-> IF s[i] = "." THEN "_" ELSE s[i]]

\* strings.HasPrefix
HasPrefix(s, p) == Len(p) <= Len(s) /\ SubSeq(s, 1, Len(p)) = p

\* strings.Index for a one-character separator; 0 stands for Go's -1
Index(s, c) ==
    IF \E i \in 1..Len(s) : s[i] = c
    THEN CHOOSE i \in 1..Len(s) : s[i] = c /\ \A j \in 1..(i - 1) : s[j] # c
    ELSE 0

\* strings.Contains
Contains(s, sub) ==
    \E i \in 1..(Len(s) - Len(sub) + 1) : SubSeq(s, i, i + Len(sub) - 1) = sub

\* strings.Join
RECURSIVE Join(_, _)
Join(list, sep) ==
    IF list = <<>> THEN <<>>
    ELSE IF Len(list) = 1 THEN list[1]
    ELSE list[1] \o sep \o Join(Tail(list), sep)

\* strings.Split(s, "=")[0]
SplitFirst(s, c) == IF Index(s, c) = 0 THEN s ELSE SubSeq(s, 1, Index(s, c) - 1)

\* strings.Fields: the maximal runs of non-space characters
RECURSIVE Fields(_)
Fields(s) ==
    IF s = <<>> THEN <<>>
    ELSE IF s[1] = " " THEN Fields(Tail(s))
    ELSE LET sp == Index(s, " ")
         IN IF sp = 0 THEN <<s>>
            ELSE <<SubSeq(s, 1, sp - 1)>> \o Fields(SubSeq(s, sp + 1, Len(s)))

Digits == <<"0", "1", "2", "3", "4", "5", "6", "7", "8", "9">>
IsDigit(c) == \E i \in 1..Len(Digits) : Digits[i] = c
DigitVal(c) == (CHOOSE i \in 1..Len(Digits) : Digits[i] = c) - 1
IsNumber(s) == s # <<>> /\ \A i \in 1..Len(s) : IsDigit(s[i])

\* strconv: the decimal number a digit string denotes
RECURSIVE ParseInt(_)
ParseInt(s) ==
    IF s = <<>> THEN 0
    ELSE 10 * ParseInt(SubSeq(s, 1, Len(s) - 1)) + DigitVal(s[Len(s)])

\* strconv.Itoa
RECURSIVE FormatInt(_)
FormatInt(n) ==
    IF n < 10 THEN <<Digits[n + 1]>>
    ELSE FormatInt(n \div 10) \o <<Digits[(n % 10) + 1]>>

\* strings.TrimSpace, as encoding/json skips the white space around a value
RECURSIVE TrimSpace(_)
TrimSpace(s) ==
    IF s = <<>> THEN s
    ELSE IF s[1] = " " THEN TrimSpace(Tail(s))
    ELSE IF s[Len(s)] = " " THEN TrimSpace(SubSeq(s, 1, Len(s) - 1))
    ELSE s

(***************************************************************************)
(* Go types (reflect.Type) and values (reflect.Value)                      *)
(*   string: a string            int, int64: a number                      *)
(*   ptr:    [isNil, v]          slice: a sequence of element values       *)
(*   map:    a sequence of [key, val], in key order                        *)
(*   struct: a sequence of field values, one per field                     *)
(***************************************************************************)
TString == [k |-> "string"]
TInt == [k |-> "int"]
TInt64 == [k |-> "int64"]
Ptr(t) == [k |-> "ptr", elem |-> t]
Slice(t) == [k |-> "slice", elem |-> t]
Map(keyIsString, t) == [k |-> "map", keyStr |-> keyIsString, elem |-> t]
Struct(fs) == [k |-> "struct", fields |-> fs]
Field(name, t) == [name |-> name, hasTag |-> FALSE, tag |-> <<>>, type |-> t]
Tagged(name, tag, t) == [name |-> name, hasTag |-> TRUE, tag |-> tag, type |-> t]

\* reflect.Zero / reflect.New(t).Elem()
RECURSIVE Zero(_)
Zero(t) ==
    CASE t.k = "string" -> <<>>
      [] t.k \in {"int", "int64"} -> 0
      [] t.k = "ptr" -> [isNil |-> TRUE, v |-> Zero(t.elem)]
      [] t.k = "slice" -> <<>>
      [] t.k = "map" -> <<>>
      [] t.k = "struct" -> [i \in 1..Len(t.fields) |-> Zero(t.fields[i].type)]

(***************************************************************************)
(* encoding/json, for the texts the sequence branch meets: numbers, quoted *)
(* strings without escapes, the empty object, and arrays of those.         *)
(***************************************************************************)
Quote == "\""
JNum(n) == [j |-> "num", n |-> n, s |-> <<>>]
JStr(s) == [j |-> "str", n |-> 0, s |-> s]
JObj == [j |-> "obj", n |-> 0, s |-> <<>>]
JBad == [j |-> "bad", n |-> 0, s |-> <<>>]

\* json.Unmarshal([]byte(str), &decodedValue) for one scalar text; "bad" is err != nil
JSONUnmarshal(str) ==
    LET s == TrimSpace(str)
    IN  IF IsNumber(s) /\ (Len(s) = 1 \/ s[1] # "0") THEN JNum(ParseInt(s))
        ELSE IF Len(s) >= 2 /\ s[1] = Quote /\ s[Len(s)] = Quote
                /\ \A i \in 2..(Len(s) - 1) : s[i] \notin {Quote, "\\"}
             THEN JStr(SubSeq(s, 2, Len(s) - 1))
        ELSE IF s = <<"{", "}">> THEN JObj
        ELSE JBad

\* json.Marshal of one element of []interface{}
JSONMarshalValue(v) ==
    CASE v.j = "num" -> FormatInt(v.n)
      [] v.j = "str" -> <<Quote>> \o v.s \o <<Quote>>
      [] v.j = "obj" -> <<"{", "}">>

\* json.Marshal([]interface{}): "[]" for the empty list
JSONMarshal(list) ==
    <<"[">> \o Join([i \in 1..Len(list) |-> JSONMarshalValue(list[i])], <<",">>) \o <<"]">>

\* the element texts of the array body s: split at the commas outside quotes
RECURSIVE SplitElems(_, _, _)
SplitElems(s, cur, inQuote) ==
    IF s = <<>> THEN <<cur>>
    ELSE IF s[1] = "," /\ ~inQuote THEN <<cur>> \o SplitElems(Tail(s), <<>>, FALSE)
    ELSE SplitElems(Tail(s), Append(cur, s[1]), IF s[1] = Quote THEN ~inQuote ELSE inQuote)

\* the JSON values of an array text, or <<JBad>> when the text is not an array
JSONArray(str) ==
    LET s == TrimSpace(str)
    IN  IF Len(s) < 2 \/ s[1] # "[" \/ s[Len(s)] # "]" THEN <<JBad>>
        ELSE LET body == TrimSpace(SubSeq(s, 2, Len(s) - 1))
                 texts == IF body = <<>> THEN <<>> ELSE SplitElems(body, <<>>, FALSE)
             IN  [i \in 1..Len(texts) |-> JSONUnmarshal(texts[i])]

\* whether encoding/json stores JSON value v in a Go value of type t
JSONFits(v, t) ==
    CASE t.k = "string" -> v.j = "str"
      [] t.k \in {"int", "int64"} -> v.j = "num"
      [] t.k = "struct" -> v.j = "obj"
      [] OTHER -> FALSE

\* the Go value encoding/json stores for v
JSONValue(v, t) ==
    CASE v.j = "str" -> v.s
      [] v.j = "num" -> v.n
      [] OTHER -> Zero(t)

(***************************************************************************)
(* the process environment (package os)                                    *)
(***************************************************************************)
HasEnv(e, name) == \E i \in 1..Len(e) : e[i].name = name
EnvIndex(e, name) == CHOOSE i \in 1..Len(e) : e[i].name = name

\* os.Getenv: "" when the variable is unset
Getenv(e, name) == IF HasEnv(e, name) THEN e[EnvIndex(e, name)].val ELSE <<>>

\* os.Setenv: a set variable keeps its place, a new one is appended
Setenv(e, name, val) ==
    IF HasEnv(e, name)
    THEN [e EXCEPT ![EnvIndex(e, name)] = [name |-> name, val |-> val]]
    ELSE Append(e, [name |-> name, val |-> val])

\* os.Environ: the "NAME=value" strings
Environ(e) == [i \in 1..Len(e) |-> e[i].name \o <<"=">> \o e[i].val]

(***************************************************************************)
(* the configuration store (viper.Viper): keys are lower-cased dotted      *)
(* paths; config holds the base source, env the bound variable names,      *)
(* defaults the registered defaults.                                       *)
(***************************************************************************)
NoKeys == [key \in {} |-> <<>>]

NewViper(prefix) ==
    [config |-> NoKeys, env |-> NoKeys, defaults |-> NoKeys,
     envPrefix |-> prefix, envKeyReplacer |-> FALSE]

\* viper.mergeWithEnvPrefix
mergeWithEnvPrefix(v, in) ==
    IF v.envPrefix # <<>> THEN ToUpper(v.envPrefix \o <<"_">> \o in) ELSE ToUpper(in)

\* viper.BindEnv(key): a promise to look the variable up when the key is read
BindEnv(v, input) ==
    LET key == ToLower(input)
    IN  IF key \in DOMAIN v.env THEN v
        ELSE [v EXCEPT !.env = (key :> mergeWithEnvPrefix(v, key)) @@ @]

\* viper.SetDefault
SetDefault(v, input, t, value) ==
    LET key == ToLower(input)
    IN  [v EXCEPT !.defaults =
            (key :> [type |-> t, val |-> value]) @@ [k \in DOMAIN @ \ {key} |-> @[k]]]

\* the variable viper.getEnv looks up for a bound name: the replacer runs over
\* the whole name, prefix included
EnvName(v, bound) == IF v.envKeyReplacer THEN Replace(bound) ELSE bound

\* viper.getEnv: an empty variable counts as unset
EnvSet(v, e, bound) == Getenv(e, EnvName(v, bound)) # <<>>

\* viper.find: a bound and set variable, then the base source, then the default
find(v, e, key) ==
    IF key \in DOMAIN v.env /\ EnvSet(v, e, v.env[key])
    THEN [found |-> TRUE, src |-> "env", text |-> Getenv(e, EnvName(v, v.env[key])), val |-> <<>>]
    ELSE IF key \in DOMAIN v.config
    THEN [found |-> TRUE, src |-> "cfg", text |-> <<>>, val |-> v.config[key]]
    ELSE IF key \in DOMAIN v.defaults
    THEN [found |-> TRUE, src |-> "def", text |-> <<>>, val |-> v.defaults[key].val]
    ELSE [found |-> FALSE, src |-> "none", text |-> <<>>, val |-> <<>>]

\* viper.AllKeys
AllKeys(v) == DOMAIN v.env \cup DOMAIN v.config \cup DOMAIN v.defaults

\* whether viper.AllSettings holds a value at key or below it
HasAny(v, e, key) ==
    \E k \in AllKeys(v) :
        /\ k = key \/ HasPrefix(k, key \o <<".">>)
        /\ find(v, e, k).found

\* the keys of the nested map AllSettings holds directly below key
SubKeys(v, e, key) ==
    {SplitFirst(SubSeq(k, Len(key) + 2, Len(k)), ".") :
        k \in {k \in AllKeys(v) : HasPrefix(k, key \o <<".">>) /\ find(v, e, k).found}}

Range(f) == {f[i] : i \in DOMAIN f}

RECURSIVE SetToSeq(_)
SetToSeq(S) ==
    IF S = {} THEN <<>>
    ELSE LET x == CHOOSE x \in S : TRUE IN <<x>> \o SetToSeq(S \ {x})

(***************************************************************************)
(* the structure decoder (viper.Unmarshal: mapstructure over AllSettings,  *)
(* weakly typed, with SliceDecodeHook as its decode hook)                  *)
(***************************************************************************)
\* the types viper.Get casts by the type of the key's default value
typeByDefValue(v, key) ==
    /\ key \in DOMAIN v.defaults
    /\ v.defaults[key].type.k = "slice"
    /\ v.defaults[key].type.elem.k \in {"string", "int"}

\* mapstructure's weak decoding of one string into an element of type t
WeakElem(t, text) ==
    CASE t.k = "string" -> [v |-> text, err |-> FALSE]
      [] t.k \in {"int", "int64"} ->
            IF IsNumber(text) THEN [v |-> ParseInt(text), err |-> FALSE]
            ELSE [v |-> 0, err |-> TRUE]
      [] OTHER -> [v |-> Zero(t), err |-> TRUE]

\* SliceDecodeHook, for string data and a slice target of type t: the decoded
\* slice when json.Unmarshal accepts the text, else the data as it came
SliceDecodeHook(t, data) ==
    LET arr == JSONArray(data)
    IN  IF \A i \in 1..Len(arr) : JSONFits(arr[i], t.elem)
        THEN [hooked |-> TRUE, list |-> [i \in 1..Len(arr) |-> JSONValue(arr[i], t.elem)]]
        ELSE [hooked |-> FALSE, list |-> <<>>]

\* decoding a list of strings element by element; a failed element is left zero
WeakList(t, texts) ==
    [v |-> [i \in 1..Len(texts) |-> WeakElem(t.elem, texts[i]).v],
     err |-> \E i \in 1..Len(texts) : WeakElem(t.elem, texts[i]).err]

\* a slice field of type t read at key: the decoded value replaces the field's
DecodeSlice(v, e, t, key, cur) ==
    LET r == find(v, e, key)
    IN  IF ~r.found THEN [v |-> cur, err |-> FALSE]
        ELSE IF r.src # "env" THEN [v |-> r.val, err |-> FALSE]
        ELSE IF typeByDefValue(v, key) THEN WeakList(t, Fields(r.text))
        ELSE LET h == SliceDecodeHook(t, r.text)
             IN  IF h.hooked THEN [v |-> h.list, err |-> FALSE]
                 ELSE WeakList(t, <<r.text>>)

\* the key mapstructure reads a field from, and whether it squashes the field
DecodeName(f) ==
    LET comma == Index(f.tag, ",")
        name == IF comma = 0 THEN f.tag ELSE SubSeq(f.tag, 1, comma - 1)
    IN  IF f.hasTag /\ name # <<>> THEN name ELSE f.name

DecodeSquash(f) ==
    LET comma == Index(f.tag, ",")
    IN  /\ f.hasTag /\ comma # 0
        /\ <<"s", "q", "u", "a", "s", "h">> \in
              Range(SplitElems(SubSeq(f.tag, comma + 1, Len(f.tag)), <<>>, FALSE))

SubKey(key, name) == IF key = <<>> THEN ToLower(name) ELSE key \o <<".">> \o ToLower(name)

MapVal(m, k, zero) ==
    IF \E i \in 1..Len(m) : m[i].key = k
    THEN m[CHOOSE i \in 1..Len(m) : m[i].key = k].val
    ELSE zero

\* mapstructure.Decode of the settings at key into cur, a value of type t:
\* a field with no setting keeps what it held
RECURSIVE Decode(_, _, _, _, _)
Decode(v, e, t, key, cur) ==
    CASE t.k = "string" ->
            LET r == find(v, e, key)
            IN  [v |-> IF ~r.found THEN cur ELSE IF r.src = "env" THEN r.text ELSE r.val,
                 err |-> FALSE]
      [] t.k = "slice" -> DecodeSlice(v, e, t, key, cur)
      [] t.k = "ptr" ->
            IF ~HasAny(v, e, key) THEN [v |-> cur, err |-> FALSE]
            ELSE LET d == Decode(v, e, t.elem, key, cur.v)
                 IN  [v |-> [isNil |-> FALSE, v |-> d.v], err |-> d.err]
      [] t.k = "map" ->
            LET ks == SetToSeq({cur[i].key : i \in 1..Len(cur)} \cup SubKeys(v, e, key))
                d == [i \in 1..Len(ks) |->
                        Decode(v, e, t.elem, key \o <<".">> \o ks[i], MapVal(cur, ks[i], Zero(t.elem)))]
            IN  [v |-> [i \in 1..Len(ks) |-> [key |-> ks[i], val |-> d[i].v]],
                 err |-> \E i \in 1..Len(ks) : d[i].err]
      [] t.k = "struct" ->
            LET d == [i \in 1..Len(t.fields) |->
                        Decode(v, e, t.fields[i].type,
                               IF DecodeSquash(t.fields[i]) THEN key
                               ELSE SubKey(key, DecodeName(t.fields[i])),
                               cur[i])]
            IN  [v |-> [i \in 1..Len(t.fields) |-> d[i].v],
                 err |-> \E i \in 1..Len(t.fields) : d[i].err]

(***************************************************************************)
(* enviper                                                                 *)
(***************************************************************************)
\* supportedCast taking every integer slice for one viper casts
supportedCastMutant(t) ==
    \/ t.k \in {"bool", "string", "int", "int64"}
    \/ t.k = "slice" /\ t.elem.k \in {"string", "int", "int64"}

\* supportedCast's castedByViper, by the dynamic type of `in`
supportedCast(t) ==
    CASE t.k \in {"bool", "string", "int32", "int16", "int8", "int", "uint", "uint32",
                  "uint64", "int64", "float64", "float32", "time", "duration"} -> TRUE
      [] t.k = "slice" /\ t.elem.k \in {"string", "int"} -> TRUE
      [] OTHER -> FALSE

\* what bindEnvs does with struct field f, from its tag: "skip" it, "squash" it
\* into the current path, or "bind" it under segment tv
fieldTag(f) ==
    LET tv == f.tag
        index == Index(tv, ",")
    IN  IF ~f.hasTag THEN [do |-> "bind", tv |-> f.name]
        ELSE IF index # 0 /\ SubSeq(tv, 1, index - 1) = <<"-">> THEN [do |-> "skip", tv |-> <<>>]
        ELSE IF index # 0 /\ Contains(SubSeq(tv, index + 1, Len(tv)), <<"s", "q", "u", "a", "s", "h">>)
             THEN [do |-> "squash", tv |-> <<>>]
        ELSE LET name == IF index # 0 THEN SubSeq(tv, 1, index - 1) ELSE tv
             IN  [do |-> "bind", tv |-> IF name = <<>> THEN f.name ELSE name]

\* fieldValue without the zero value for a nil pointer
fieldValueMutant(t, val) ==
    IF t.k = "ptr" /\ ~val.isNil THEN [t |-> t.elem, v |-> val.v] ELSE [t |-> t, v |-> val]

\* the value bindEnvs walks for a struct field: a nil pointer stands for a
\* fresh zero value of its pointee type
fieldValue(t, val) ==
    IF t.k = "ptr"
    THEN [t |-> t.elem, v |-> IF val.isNil THEN Zero(t.elem) ELSE val.v]
    ELSE [t |-> t, v |-> val]

\* squashPrev nesting the squashed field like any other
squashPrevMutant(prev, f) == Append(prev, f.name)

\* the path prev of a squashed field's own fields
squashPrev(prev, f) == prev

\* the variable name the slice branch computes for key env
sliceKey(v, env) ==
    LET replaced == IF v.envKeyReplacer THEN Replace(env) ELSE env
        prefixed == IF v.envPrefix # <<>>
                    THEN ToUpper(v.envPrefix \o <<"_">> \o replaced)
                    ELSE replaced
    IN  ToUpper(prefixed)

\* the values of the variables whose "NAME=value" string starts with key_
RECURSIVE collectValues(_, _, _)
collectValues(e, envs, key) ==
    IF envs = <<>> THEN <<>>
    ELSE (IF HasPrefix(envs[1], key \o <<"_">>)
          THEN <<Getenv(e, SplitFirst(envs[1], "="))>>
          ELSE <<>>) \o collectValues(e, Tail(envs), key)

\* the text the slice branch writes for the collected values
sliceText(castedByViper, values) ==
    IF castedByViper THEN Join(values, <<" ">>)
    ELSE JSONMarshal([i \in 1..Len(values) |->
            LET decodedValue == JSONUnmarshal(values[i])
            IN  IF decodedValue.j = "bad" THEN JStr(values[i]) ELSE decodedValue])

\* case reflect.Slice
bindSlice(in, prev, st) ==
    LET env == Join(prev, <<".">>)
        v1 == BindEnv(st.viper, env)
        key == sliceKey(v1, env)
        values == collectValues(st.environ, Environ(st.environ), key)
        castedByViper == supportedCast(in.t)
        text == sliceText(castedByViper, values)
    IN  [viper |-> SetDefault(v1, env, in.t, in.v),
         environ |-> Setenv(st.environ, key, text),
         walked |-> Append(st.walked,
            [path |-> prev, kind |-> "slice", type |-> in.t, seen |-> in.v,
             key |-> ToLower(env), name |-> key, values |-> values,
             casted |-> castedByViper, text |-> text])]

\* bindLeaf without the call of BindEnv
bindLeafMutant(in, prev, st) ==
    LET env == Join(prev, <<".">>)
    IN  [viper |-> st.viper,
         environ |-> st.environ,
         walked |-> Append(st.walked,
            [path |-> prev, kind |-> "leaf", type |-> in.t, seen |-> in.v,
             key |-> ToLower(env),
             name |-> EnvName(st.viper, mergeWithEnvPrefix(st.viper, ToLower(env))),
             values |-> <<>>, casted |-> FALSE, text |-> <<>>])]

\* default: a direct binding
bindLeaf(in, prev, st) ==
    LET env == Join(prev, <<".">>)
        v1 == BindEnv(st.viper, env)
    IN  [viper |-> v1,
         environ |-> st.environ,
         walked |-> Append(st.walked,
            [path |-> prev, kind |-> "leaf", type |-> in.t, seen |-> in.v,
             key |-> ToLower(env), name |-> EnvName(v1, v1.env[ToLower(env)]),
             values |-> <<>>, casted |-> FALSE, text |-> <<>>])]

\* bindEnvs(in, prev...), with st the store, the environment and the visits so far
RECURSIVE bindEnvs(_, _, _)
RECURSIVE bindFields(_, _, _, _)
RECURSIVE bindEntries(_, _, _, _)
bindEnvs(in, prev, st) ==
    CASE in.t.k = "ptr" ->
            IF in.v.isNil THEN bindLeaf(in, prev, st)
            ELSE bindEnvs([t |-> in.t.elem, v |-> in.v.v], prev, st)
      [] in.t.k = "struct" -> bindFields(in, prev, 1, st)
      [] in.t.k = "map" -> bindEntries(in, prev, 1, st)
      [] in.t.k = "slice" -> bindSlice(in, prev, st)
      [] OTHER -> bindLeaf(in, prev, st)

\* case reflect.Struct: the fields from i on
bindFields(in, prev, i, st) ==
    IF i > Len(in.t.fields) THEN st
    ELSE LET f == in.t.fields[i]
             fv == fieldValue(f.type, in.v[i])
             tag == fieldTag(f)
             st1 == CASE tag.do = "skip" -> st
                      [] tag.do = "squash" -> bindEnvs(fv, squashPrev(prev, f), st)
                      [] OTHER -> bindEnvs(fv, Append(prev, tag.tv), st)
         IN  bindFields(in, prev, i + 1, st1)

\* case reflect.Map: the entries from i on; only string keys give a path
bindEntries(in, prev, i, st) ==
    IF i > Len(in.v) THEN st
    ELSE bindEntries(in, prev, i + 1,
            IF in.t.keyStr
            THEN bindEnvs([t |-> in.t.elem, v |-> in.v[i].val], Append(prev, in.v[i].key), st)
            ELSE st)

(***************************************************************************)
(* the targets, base sources and environments the model runs Unmarshal on  *)
(***************************************************************************)
MaxEnv == 2       \* variables set in the environment before the first call
MaxCalls == 2     \* calls of Unmarshal on the same store

\* type Inner struct { N string };  type Elem struct { K string }
Inner == Struct(<<Field(<<"N">>, TString)>>)
Elem == Struct(<<Field(<<"K">>, TString)>>)

\* the Go types of rawVal; the tags are those under e.TagName()
Schemas == <<
    \* 1: X string; O *Inner; M map[string]string
    Struct(<<Field(<<"X">>, TString), Field(<<"O">>, Ptr(Inner)), Field(<<"M">>, Map(TRUE, TString))>>),
    \* 2: X string `r`; F Inner `,squash`; S Inner `-`
    Struct(<<Tagged(<<"X">>, <<"r">>, TString), Tagged(<<"F">>, <<",", "s", "q", "u", "a", "s", "h">>, Inner), Tagged(<<"S">>, <<"-">>, Inner)>>),
    \* 3: X string `r,omitempty`; F Inner `f,squash`; S Inner `-,`
    Struct(<<Tagged(<<"X">>, <<"r", ",", "o", "m", "i", "t", "e", "m", "p", "t", "y">>, TString), Tagged(<<"F">>, <<"f", ",", "s", "q", "u", "a", "s", "h">>, Inner), Tagged(<<"S">>, <<"-", ",">>, Inner)>>),
    \* 4: X string `,omitempty`; F Inner `f,squash`; S Inner `-,squash`
    Struct(<<Tagged(<<"X">>, <<",", "o", "m", "i", "t", "e", "m", "p", "t", "y">>, TString), Tagged(<<"F">>, <<"f", ",", "s", "q", "u", "a", "s", "h">>, Inner), Tagged(<<"S">>, <<"-", ",", "s", "q", "u", "a", "s", "h">>, Inner)>>),
    \* 5: L []string
    Struct(<<Field(<<"L">>, Slice(TString))>>),
    \* 6: L []int
    Struct(<<Field(<<"L">>, Slice(TInt))>>),
    \* 7: L []int64
    Struct(<<Field(<<"L">>, Slice(TInt64))>>),
    \* 8: L []Elem
    Struct(<<Field(<<"L">>, Slice(Elem))>>),
    \* 9: A []string; A_B []string
    Struct(<<Field(<<"A">>, Slice(TString)), Field(<<"A", "_", "B">>, Slice(TString))>>),
    \* 10: A_B []string; A []string
    Struct(<<Field(<<"A", "_", "B">>, Slice(TString)), Field(<<"A">>, Slice(TString))>>)
>>

SchemaType == Schemas[schema]

\* the settings a base source may hold for each target, by store key
Bases(i) ==
    CASE i = 1 -> {(<<"x">> :> <<"b">>) @@ (<<"o", ".", "n">> :> <<"b">>) @@ (<<"m", ".", "k">> :> <<"b">>),
                   (<<"x">> :> <<"b">>) @@ (<<"m", ".", "k">> :> <<"b">>)}
      [] i \in {2, 3} -> {(<<"r">> :> <<"b">>) @@ (<<"n">> :> <<"b">>)}
      [] i = 4 -> {(<<"x">> :> <<"b">>) @@ (<<"n">> :> <<"b">>)}
      [] i = 5 -> {(<<"l">> :> <<<<"b">>, <<"s">>, <<"b">>>>)}
      [] i \in {6, 7} -> {(<<"l">> :> <<7, 8, 9>>)}
      [] i = 8 -> {(<<"l">> :> <<<<<<"b">>>>, <<<<"s">>>>>>)}
      [] i \in {9, 10} -> {(<<"a">> :> <<<<"b">>>>) @@ (<<"a", "_", "b">> :> <<<<"s">>>>)}

\* what ReadInConfig may find
Files(i) ==
    {[result |-> "ok", keys |-> ks] : ks \in Bases(i)}
    \cup {[result |-> "notfound", keys |-> NoKeys], [result |-> "other", keys |-> NoKeys]}

\* the environment variables worth setting for each target: the names as a
\* user writes them after the prefix, in enumeration order, and their values
Pool(i) ==
    CASE i = 1 -> <<[name |-> <<"X">>, vals |-> {<<"x">>, <<>>}],
                    [name |-> <<"O", "_", "N">>, vals |-> {<<"x">>}],
                    [name |-> <<"M", "_", "K">>, vals |-> {<<"x">>}]>>
      [] i \in {2, 3, 4} ->
                  <<[name |-> <<"R">>, vals |-> {<<"x">>}],
                    [name |-> <<"X">>, vals |-> {<<"x">>}],
                    [name |-> <<"N">>, vals |-> {<<"x">>}],
                    [name |-> <<"F", "_", "N">>, vals |-> {<<"x">>}],
                    [name |-> <<"S", "_", "N">>, vals |-> {<<"x">>}],
                    [name |-> <<"-", "_", "N">>, vals |-> {<<"x">>}]>>
      [] i \in {5, 6, 7} ->
                  <<[name |-> <<"L", "_", "2">>, vals |-> {<<"1">>, <<"x", " ", "x">>, <<>>}],
                    [name |-> <<"L", "_", "1">>, vals |-> {<<"2">>, <<"x">>}],
                    [name |-> <<"L">>, vals |-> {<<"x">>}]>>
      [] i = 8 -> <<[name |-> <<"L", "_", "2">>, vals |-> {<<"{", "}">>, <<"1">>}],
                    [name |-> <<"L", "_", "1">>, vals |-> {<<"{", "}">>}],
                    [name |-> <<"L">>, vals |-> {<<"x">>}]>>
      [] i \in {9, 10} ->
                  <<[name |-> <<"A", "_", "1">>, vals |-> {<<"x">>}],
                    [name |-> <<"A", "_", "B", "_", "1">>, vals |-> {<<"1">>}]>>

\* the environments: at most MaxEnv variables of the pool from position i on,
\* each with one of its values, every name led by `lead`
RECURSIVE Envs(_, _, _, _)
Envs(pool, i, n, lead) ==
    IF i > Len(pool) \/ n = 0 THEN {<<>>}
    ELSE Envs(pool, i + 1, n, lead)
         \cup {<<[name |-> lead \o pool[i].name, val |-> val]>> \o rest :
                 val \in pool[i].vals, rest \in Envs(pool, i + 1, n - 1, lead)}

\* the prefix set on the store, and how the user spells it in variable names
Prefixes ==
    {[envPrefix |-> <<>>, lead |-> <<>>],
     [envPrefix |-> <<"p">>, lead |-> <<"P", "_">>],
     [envPrefix |-> <<"p", ".", "q">>, lead |-> <<"P", ".", "Q", "_">>],
     [envPrefix |-> <<"p", ".", "q">>, lead |-> <<"P", "_", "Q", "_">>]}

(***************************************************************************)
(* Unmarshal                                                               *)
(***************************************************************************)
Init ==
    /\ schema \in 1..Len(Schemas)
    /\ file \in Files(schema)
    /\ \E px \in Prefixes :
        /\ viper = NewViper(px.envPrefix)
        /\ environ \in Envs(Pool(schema), 1, MaxEnv, px.lead)
    /\ rawVal = Zero(SchemaType)
    /\ pc = "start"
    /\ err = "none"
    /\ calls = 0
    /\ env0 = environ
    /\ baseVal = Zero(SchemaType)
    /\ firstVal = Zero(SchemaType)
    /\ walked = <<>>

\* loadFatal returning every error of ReadInConfig
loadFatalMutant(result) == result # "ok"

\* whether Unmarshal returns ReadInConfig's error: every error but
\* viper.ConfigFileNotFoundError
loadFatal(result) == result \notin {"ok", "notfound"}

\* e.Viper.ReadInConfig() failed with another error than "not found": return it
ReadInConfigFails ==
    /\ pc = "start"
    /\ loadFatal(file.result)
    /\ pc' = "failed"
    /\ err' = "load"
    /\ UNCHANGED <<schema, rawVal, viper, environ, file, calls, env0, baseVal, firstVal, walked>>

\* e.Viper.ReadInConfig() loaded the base source, or found none
ReadInConfig ==
    /\ pc = "start"
    /\ ~loadFatal(file.result)
    /\ viper' = [viper EXCEPT !.config = IF file.result = "ok" THEN file.keys ELSE @]
    /\ pc' = "loaded"
    /\ UNCHANGED <<schema, rawVal, environ, file, err, calls, env0, baseVal, firstVal, walked>>

\* _ = e.Viper.Unmarshal(rawVal, opts...): the first decode, its error dropped
FirstUnmarshal ==
    /\ pc = "loaded"
    /\ rawVal' = Decode(viper, environ, SchemaType, <<>>, rawVal).v
    /\ baseVal' = IF calls = 0 THEN rawVal' ELSE baseVal
    /\ pc' = "decoded"
    /\ UNCHANGED <<schema, viper, environ, file, err, calls, env0, firstVal, walked>>

\* e.readEnvs(rawVal): set the "." -> "_" replacer and walk the target
readEnvs ==
    /\ pc = "decoded"
    /\ LET st == bindEnvs([t |-> SchemaType, v |-> rawVal], <<>>,
                          [viper |-> [viper EXCEPT !.envKeyReplacer = TRUE],
                           environ |-> environ, walked |-> <<>>])
       IN  /\ viper' = st.viper
           /\ environ' = st.environ
           /\ walked' = st.walked
    /\ pc' = "bound"
    /\ UNCHANGED <<schema, rawVal, file, err, calls, env0, baseVal, firstVal>>

\* return e.Viper.Unmarshal(rawVal, opts...): the final decode and its result
FinalUnmarshal ==
    /\ pc = "bound"
    /\ LET d == Decode(viper, environ, SchemaType, <<>>, rawVal)
       IN  /\ rawVal' = d.v
           /\ err' = IF d.err THEN "decode" ELSE "nil"
           /\ firstVal' = IF calls = 0 THEN d.v ELSE firstVal
    /\ calls' = calls + 1
    /\ pc' = "done"
    /\ UNCHANGED <<schema, viper, environ, file, env0, baseVal, walked>>

\* the caller calls Unmarshal again, into the same target or into a fresh one,
\* with the store and the environment as the last call left them
CallAgain ==
    /\ pc = "done"
    /\ calls < MaxCalls
    /\ rawVal' \in {rawVal, Zero(SchemaType)}
    /\ pc' = "start"
    /\ err' = "none"
    /\ UNCHANGED <<schema, viper, environ, file, calls, env0, baseVal, firstVal, walked>>

Next ==
    \/ ReadInConfigFails
    \/ ReadInConfig
    \/ FirstUnmarshal
    \/ readEnvs
    \/ FinalUnmarshal
    \/ CallAgain

Spec == Init /\ [][Next]_vars

(***************************************************************************)
(* what the claims speak of                                                *)
(***************************************************************************)
\* the value the walker would see at path in target value val
SeenAt(val, path) ==
    LET ws == bindEnvs([t |-> SchemaType, v |-> val], <<>>,
                       [viper |-> viper, environ |-> environ, walked |-> <<>>]).walked
    IN  IF \E i \in 1..Len(ws) : ws[i].path = path
        THEN [found |-> TRUE, v |-> ws[CHOOSE i \in 1..Len(ws) : ws[i].path = path].seen]
        ELSE [found |-> FALSE, v |-> <<>>]

Walked == {walked[i] : i \in 1..Len(walked)}

\* C8: Unmarshal returns the load error, having decoded nothing, bound nothing
\* and left the environment alone, exactly when loading the base source fails
\* with another error than "not found"; an absent source is not reported and
\* does not stop the call.
C8_LoadFailure ==
    /\ pc = "failed" =>
        /\ file.result = "other"
        /\ err = "load"
        /\ rawVal = Zero(SchemaType)
        /\ DOMAIN viper.env = {} /\ DOMAIN viper.defaults = {} /\ ~viper.envKeyReplacer
        /\ environ = env0
        /\ walked = <<>>
    /\ file.result = "other" => pc \in {"start", "failed"}
    /\ file.result # "other" => pc # "failed" /\ err # "load"

C8_Witness == pc = "failed" /\ environ # <<>>

\* C1: a bound leaf that the base source sets and whose variable is set to a
\* non-empty value holds the variable's value when Unmarshal returns.
C1_Precedence ==
    pc = "done" =>
        \A w \in Walked :
            (/\ w.kind = "leaf"
             /\ w.key \in DOMAIN viper.config
             /\ Getenv(environ, w.name) # <<>>)
            => SeenAt(rawVal, w.path) = [found |-> TRUE, v |-> Getenv(environ, w.name)]

C1_Witness ==
    /\ pc = "done"
    /\ \E w \in Walked :
        /\ w.kind = "leaf"
        /\ Len(w.path) = 2
        /\ w.key \in DOMAIN viper.config
        /\ Getenv(env0, w.name) # <<>>
        /\ viper.config[w.key] # Getenv(env0, w.name)
        /\ SeenAt(rawVal, w.path).v = Getenv(env0, w.name)

\* the tag conventions, as the claims state them
TagKey(f) == IF f.hasTag THEN SplitFirst(f.tag, ",") ELSE <<>>
SpecSkip(f) == f.hasTag /\ TagKey(f) = <<"-">>
SpecFlatten(f) == ~SpecSkip(f) /\ DecodeSquash(f)
TopFields == {SchemaType.fields[i] : i \in 1..Len(SchemaType.fields)}
Segments(path) == {path[i] : i \in 1..Len(path)}
Walking == pc \in {"bound", "done"}
FirstCall == (pc = "bound" /\ calls = 0) \/ (pc = "done" /\ calls = 1)

\* C7: every leaf inside a pointer field that the first decode left nil is
\* bound under the field's path, and when its variable is set the final result
\* holds the pointee with that leaf set to the variable's value.
C7_OptionalFields ==
    FirstCall =>
        \A i \in 1..Len(SchemaType.fields) :
            LET f == SchemaType.fields[i]
            IN  (f.type.k = "ptr" /\ baseVal[i].isNil) =>
                    \A j \in 1..Len(f.type.elem.fields) :
                        LET path == <<f.name, f.type.elem.fields[j].name>>
                            key == ToLower(Join(path, <<".">>))
                        IN  /\ key \in DOMAIN viper.env
                            /\ \E w \in Walked : w.path = path /\ w.kind = "leaf"
                            /\ (pc = "done" /\ EnvSet(viper, environ, viper.env[key])) =>
                                    /\ ~rawVal[i].isNil
                                    /\ rawVal[i].v[j] = Getenv(environ, EnvName(viper, viper.env[key]))

C7_Witness ==
    /\ pc = "done" /\ calls = 1 /\ schema = 1
    /\ baseVal[2].isNil
    /\ ~rawVal[2].isNil
    /\ rawVal[2].v[1] = <<"x">>

\* C4: no path bound inside a flattened field holds the field's declared name
\* or its override key: each is the parent's prefix followed directly by the
\* inner field's segment.
C4_Flatten ==
    Walking =>
        \A f \in TopFields :
            SpecFlatten(f) =>
                /\ \A w \in Walked : Segments(w.path) \cap {f.name, TagKey(f)} = {}
                /\ \A j \in 1..Len(f.type.fields) :
                        /\ \E w \in Walked : w.path = <<f.type.fields[j].name>>
                        /\ ToLower(f.type.fields[j].name) \in DOMAIN viper.env

C4_Witness ==
    /\ pc = "done" /\ schema = 3
    /\ <<"n">> \in DOMAIN viper.config
    /\ rawVal[2][1] = <<"x">>

\* the sequence types the sequence branch hands to the store's own cast
DirectType(t) == t.elem.k \in {"string", "int"}
\* the primitive element types
PrimitiveElem(t) == t.elem.k \in {"bool", "string", "int", "int64", "float64", "time", "duration"}

\* what either path leaves in the environment under the resolved name
DirectPath(w) == Getenv(environ, w.name) = Join(w.values, <<" ">>)
StructuredPath(w) ==
    LET arr == JSONArray(Getenv(environ, w.name))
    IN  /\ Len(arr) = Len(w.values)
        /\ \A i \in 1..Len(arr) :
                arr[i] = IF JSONUnmarshal(w.values[i]).j = "bad"
                         THEN JStr(w.values[i])
                         ELSE JSONUnmarshal(w.values[i])

\* C10 as amended: a sequence binding takes the direct path exactly when the
\* sequence is a []string or a []int, and the structured-text path for every
\* other element type, the other primitive ones included.
C10_CastPolicy ==
    pc = "bound" =>
        \A w \in Walked :
            w.kind = "slice" =>
                /\ DirectType(w.type) => DirectPath(w) /\ ~StructuredPath(w)
                /\ ~DirectType(w.type) => StructuredPath(w) /\ ~DirectPath(w)

C10_Witness ==
    /\ pc = "bound"
    /\ \E w \in Walked :
        /\ w.kind = "slice" /\ w.type.elem.k = "int64"
        /\ Len(w.values) = 2
        /\ StructuredPath(w)

\* C10 as stated: the direct path exactly when the element type is a primitive
\* representable as text.
C10_Original ==
    pc = "bound" =>
        \A w \in Walked :
            w.kind = "slice" =>
                /\ PrimitiveElem(w.type) => DirectPath(w)
                /\ ~PrimitiveElem(w.type) => StructuredPath(w)

\* whether the environment the first call started from holds a counterpart of
\* visit w: the variable of its resolved name, or for a sequence a variable
\* named name_...
Counterpart(w) ==
    \/ HasEnv(env0, w.name)
    \/ /\ w.kind = "slice"
       /\ \E i \in 1..Len(env0) : HasPrefix(env0[i].name, w.name \o <<"_">>)

\* whether the store looks up for w's key the name the walker resolved for it
NamesAgree(w) == w.name = EnvName(viper, viper.env[w.key])

C3_SkipNeverBinds ==
    Walking =>
        \A f \in TopFields :
            SpecSkip(f) =>
                /\ \A w \in Walked : w.path[1] \notin {f.name, TagKey(f)}
                /\ \A key \in DOMAIN viper.env :
                        ~HasPrefix(key, ToLower(f.name) \o <<".">>)
                        /\ ~HasPrefix(key, TagKey(f) \o <<".">>)

\* C6: a second Unmarshal, with the store and the environment as the first
\* call left them, decodes the same value as the first.
C6_Idempotent == (pc = "done" /\ calls >= 2) => rawVal = firstVal

\* the name the claims give to path under prefix
SpecName(prefix, path) ==
    (IF prefix # <<>> THEN ToUpper(prefix) \o <<"_">> ELSE <<>>)
        \o ToUpper(Replace(Join(path, <<".">>)))

Untagged == \A f \in TopFields : ~f.hasTag

\* C9: with no tag overrides the variable used for a path is the upper-cased
\* prefix and "_", when there is a prefix, then the upper-cased path with "_"
\* for "."; and the name the sequence branch computes is the name the store
\* looks up for the same key.
C9_EnvNames ==
    (Walking /\ Untagged) =>
        \A w \in Walked :
            /\ w.name = SpecName(viper.envPrefix, w.path)
            /\ w.name = EnvName(viper, viper.env[w.key])

\* C5: a string sequence with variables named name_... holds after Unmarshal
\* exactly their values, one element per variable, in enumeration order;
\* stated for the fields whose name the store and the walker agree on and for
\* variables that are not empty.
C5_SequenceMerge ==
    (pc = "done" /\ calls = 1) =>
        \A w \in Walked :
            (/\ w.kind = "slice" /\ w.type.elem.k = "string"
             /\ NamesAgree(w)
             /\ w.values # <<>>
             /\ \A i \in 1..Len(w.values) : w.values[i] # <<>>)
            => SeenAt(rawVal, w.path) = [found |-> TRUE, v |-> w.values]
====
